---------------------------- MODULE Spec2Model ----------------------------
(***************************************************************************)
(* SAMUDRAKSHA hazard monitoring server: the keyword text analyser         *)
(* (NLPEngine), the hotspot generator, the report/sync/hotspot endpoints   *)
(* and the early-warning trigger of src/server.js.                         *)
(*                                                                         *)
(* Units.  JavaScript numbers that the code only ever builds as multiples  *)
(* of 0.1 (confidence = k * 0.2, urgencyLevel = min(k * 0.3, 1)) are kept  *)
(* as integers in tenths, so urgencyLevel 7 reads 0.7.  The clock is kept  *)
(* in hours, coordinates in hundredths of a degree.                        *)
(***************************************************************************)
EXTENDS Integers, Sequences, FiniteSets, TLC

VARIABLES
    nlpArg,      \* argument handed to NLPEngine.analyzeText
    nlpRet,      \* what the call did: not called yet, threw, or returned
    reports,     \* let reports = []
    hotspots,    \* let hotspots = []
    warnings,    \* early warnings handed to the dispatch channel, in order
    now,         \* Date.now(), in hours since server start
    hsNow,       \* history: clock reading of the latest generateHotspots run
    rerun,       \* history: the latest generateHotspots run found the report
                 \* collection as the run before it had left it
    hazards,     \* oceanMonitor.hazards
    timers,      \* number of setInterval timers startRealTimeMonitoring started
    cycle,       \* history: number of weather-ingestion cycles completed
    lastData,    \* history: the weather data of the latest ingestion cycle
    riskArg,     \* body of the latest POST /api/ocean/risk-assessment
    riskRet,     \* its response
    socialPosts, \* let socialPosts = []
    socialArg,   \* req.body.posts of the latest social request, if it had a body
    socialRet,   \* response of the latest social request
    isOnline,    \* offlineManager.isOnline
    syncQueue,   \* offlineManager.syncQueue: ids of the queued reports, in order
    dbReports,   \* object store 'reports' of HazardReportingDB, in key order
    syncPasses,  \* the calls of syncOfflineData in flight, each with its position
    uploaded,    \* history: per report, the POST /api/reports answered ok
    connectionStatus  \* status of the latest updateUI call

nlpVars == <<nlpArg, nlpRet>>
serverVars == <<reports, hotspots, warnings, now, hsNow, rerun>>
oceanVars == <<hazards, timers, cycle, lastData, riskArg, riskRet>>
socialVars == <<socialPosts, socialArg, socialRet>>
offlineVars == <<isOnline, syncQueue, dbReports, syncPasses, uploaded, connectionStatus>>

vars == <<nlpVars, serverVars, oceanVars, socialVars, offlineVars>>

-----------------------------------------------------------------------------
(* JavaScript values that are not there *)

\* undefined / null / an absent field: the empty tuple; a present value v is <<v>>
Undefined == <<>>
Some(v) == <<v>>
IsDefined(o) == o # <<>>
ValueOf(o) == o[1]

\* NaN, the number a missing or unparsable numeric field turns into
NaN == <<>>
Num(n) == <<n>>
IsNum(x) == x # <<>>

Min(a, b) == IF a < b THEN a ELSE b
Max(a, b) == IF a > b THEN a ELSE b

-----------------------------------------------------------------------------
(* Strings *)

UpperLetters == "ABCDEFGHIJKLMNOPQRSTUVWXYZ"
LowerLetters == "abcdefghijklmnopqrstuvwxyz"

CharAt(s, i) == SubSeq(s, i, i)

\* String.prototype.toLowerCase on one character
toLowerChar(c) ==
    IF \E i \in 1..Len(UpperLetters) : CharAt(UpperLetters, i) = c
    THEN LET i == CHOOSE j \in 1..Len(UpperLetters) : CharAt(UpperLetters, j) = c
         IN  CharAt(LowerLetters, i)
    ELSE c

RECURSIVE toLowerCase(_)
toLowerCase(s) ==
    IF Len(s) = 0 THEN ""
    ELSE toLowerChar(CharAt(s, 1)) \o toLowerCase(SubSeq(s, 2, Len(s)))

\* String.prototype.includes: substring containment
includes(s, k) ==
    \E i \in 1..(Len(s) - Len(k) + 1) : SubSeq(s, i, i + Len(k) - 1) = k

\* (s.match(new RegExp(word, 'g')) || []).length: the number of
\* non-overlapping occurrences of word in s, scanning left to right
RECURSIVE matchCountFrom(_, _, _)
matchCountFrom(s, word, i) ==
    IF i + Len(word) - 1 > Len(s) THEN 0
    ELSE IF SubSeq(s, i, i + Len(word) - 1) = word
         THEN 1 + matchCountFrom(s, word, i + Len(word))
         ELSE matchCountFrom(s, word, i + 1)

matchCount(s, word) == matchCountFrom(s, word, 1)

\* array.filter(p): the subsequence of the elements satisfying p
RECURSIVE SelectIncluded(_, _)
SelectIncluded(keywords, s) ==
    IF keywords = <<>> THEN <<>>
    ELSE (IF includes(s, Head(keywords)) THEN <<Head(keywords)>> ELSE <<>>)
         \o SelectIncluded(Tail(keywords), s)

RECURSIVE SumMatchCounts(_, _)
SumMatchCounts(words, s) ==
    IF words = <<>> THEN 0
    ELSE matchCount(s, Head(words)) + SumMatchCounts(Tail(words), s)

-----------------------------------------------------------------------------
(* NLPEngine *)

\* this.hazardKeywords, in declaration order (Object.entries order)
hazardKeywords == <<
    [type |-> "flood",      keywords |-> <<"flood", "flooding", "water", "rain", "overflow", "submerged">>],
    [type |-> "storm",      keywords |-> <<"storm", "cyclone", "hurricane", "wind", "tornado">>],
    [type |-> "fire",       keywords |-> <<"fire", "burning", "smoke", "flames", "wildfire">>],
    [type |-> "earthquake", keywords |-> <<"earthquake", "tremor", "shake", "seismic">>],
    [type |-> "tsunami",    keywords |-> <<"tsunami", "wave", "surge", "coastal">>],
    [type |-> "accident",   keywords |-> <<"accident", "crash", "collision", "emergency">>] >>

urgencyKeywords == <<"urgent", "emergency", "critical", "immediate", "help", "rescue">>

negativeWords == <<"danger", "disaster", "severe", "critical", "emergency">>
positiveWords == <<"safe", "help", "rescue", "support">>

\* hazardType: null
Null == "null"

\* the for..of loop over the categories: every category with a match
\* assigns hazardType, appends its matches and adds matches.length * 0.2
RECURSIVE detectHazard(_, _, _)
detectHazard(lowerText, i, acc) ==
    IF i > Len(hazardKeywords) THEN acc
    ELSE LET matches == SelectIncluded(hazardKeywords[i].keywords, lowerText)
         IN  IF Len(matches) > 0
             THEN detectHazard(lowerText, i + 1,
                      [hazardType |-> hazardKeywords[i].type,
                       keywords   |-> acc.keywords \o matches,
                       confidence |-> acc.confidence + Len(matches) * 2])
             ELSE detectHazard(lowerText, i + 1, acc)

\* analyzeString with line 163, the Math.min on confidence, left out
analyzeStringUnclamped(text) ==
    LET lowerText == toLowerCase(text)
        hazard == detectHazard(lowerText, 1,
                      [hazardType |-> Null, keywords |-> <<>>, confidence |-> 0])
        urgencyMatches == SelectIncluded(urgencyKeywords, lowerText)
        negCount == SumMatchCounts(negativeWords, lowerText)
        posCount == SumMatchCounts(positiveWords, lowerText)
    IN  [hazardType   |-> hazard.hazardType,
         urgencyLevel |-> Min(Len(urgencyMatches) * 3, 10),
         keywords     |-> hazard.keywords \o urgencyMatches,
         sentiment    |-> IF negCount > posCount THEN "negative"
                          ELSE IF posCount > negCount THEN "positive"
                          ELSE "neutral",
         confidence   |-> hazard.confidence]

\* analyzeText on a string
analyzeString(text) ==
    LET lowerText == toLowerCase(text)
        hazard == detectHazard(lowerText, 1,
                      [hazardType |-> Null, keywords |-> <<>>, confidence |-> 0])
        urgencyMatches == SelectIncluded(urgencyKeywords, lowerText)
        negCount == SumMatchCounts(negativeWords, lowerText)
        posCount == SumMatchCounts(positiveWords, lowerText)
    IN  [hazardType   |-> hazard.hazardType,
         urgencyLevel |-> Min(Len(urgencyMatches) * 3, 10),
         keywords     |-> hazard.keywords \o urgencyMatches,
         sentiment    |-> IF negCount > posCount THEN "negative"
                          ELSE IF posCount > negCount THEN "positive"
                          ELSE "neutral",
         confidence   |-> Min(hazard.confidence, 10)]

\* analyzeText(text): text.toLowerCase() raises a TypeError when text is
\* null or undefined
Threw == [status |-> "threw"]
Returned(v) == [status |-> "returned", value |-> v]
NotCalled == [status |-> "not called"]

analyzeText(text) ==
    IF ~IsDefined(text) THEN Threw
    ELSE Returned(analyzeString(ValueOf(text)))

-----------------------------------------------------------------------------
(* Hotspot generation *)

\* const timeWindow = 24 * 60 * 60 * 1000, in hours
timeWindow == 24

\* parseInt(v): optional sign, then the longest prefix of decimal digits;
\* NaN when there is none (or v is undefined).  Leading blanks are skipped.
Digits == "0123456789"
IsDigit(c) == \E i \in 1..Len(Digits) : CharAt(Digits, i) = c
DigitValue(c) == (CHOOSE i \in 1..Len(Digits) : CharAt(Digits, i) = c) - 1

RECURSIVE parseDigits(_, _, _)
parseDigits(s, i, acc) ==
    IF i <= Len(s) /\ IsDigit(CharAt(s, i))
    THEN parseDigits(s, i + 1, acc * 10 + DigitValue(CharAt(s, i)))
    ELSE acc

RECURSIVE skipBlanks(_, _)
skipBlanks(s, i) == IF i <= Len(s) /\ CharAt(s, i) = " " THEN skipBlanks(s, i + 1) ELSE i

parseInt(v) ==
    IF ~IsDefined(v) THEN NaN
    ELSE LET s == ValueOf(v)
             b == skipBlanks(s, 1)
             neg == b <= Len(s) /\ CharAt(s, b) = "-"
             d == IF b <= Len(s) /\ CharAt(s, b) \in {"-", "+"} THEN b + 1 ELSE b
         IN  IF d <= Len(s) /\ IsDigit(CharAt(s, d))
             THEN Num((IF neg THEN -1 ELSE 1) * parseDigits(s, d, 0))
             ELSE NaN

\* (x || 1) in place of (x || 0)
OrOne(x) == IF IsNum(x) /\ x[1] # 0 THEN x[1] ELSE 1

\* (x || 0) on a number: NaN and 0 are falsy
OrZero(x) == IF IsNum(x) THEN x[1] ELSE 0

\* Math.trunc in place of Math.floor: rounding toward zero
truncTimes10(x) ==
    IF ~IsNum(x) THEN NaN
    ELSE IF x[1] >= 0 THEN Num(x[1] \div 10) ELSE Num(-((-x[1]) \div 10))

\* Math.floor(coordinate * 10), the coordinate in hundredths of a degree
floorTimes10(x) == IF IsNum(x) THEN Num(x[1] \div 10) ELSE NaN

\* `${Math.floor(report.latitude * 10)}_${Math.floor(report.longitude * 10)}`
clusterKey(report) == <<floorTimes10(report.latitude), floorTimes10(report.longitude)>>

\* the time filter with <= in place of <
inTimeWindowInclusive(report, t) ==
    IsNum(report.timestamp) /\ t - report.timestamp[1] <= timeWindow

\* now - new Date(report.timestamp).getTime() < timeWindow; a comparison
\* with NaN is false
inTimeWindow(report, t) ==
    IsNum(report.timestamp) /\ t - report.timestamp[1] < timeWindow

\* const weights = { critical: 4, high: 3, medium: 2, low: 1 }; (weights[s] || 1)
severityWeight(severity) ==
    CASE severity = Some("critical") -> 4
      [] severity = Some("high")     -> 3
      [] severity = Some("medium")   -> 2
      [] severity = Some("low")      -> 1
      [] OTHER                       -> 1

RECURSIVE SumSeq(_)
SumSeq(q) == IF q = <<>> THEN 0 ELSE Head(q) + SumSeq(Tail(q))

\* the first element in place of the greatest
FirstOfSeq(q) == q[1]

RECURSIVE MaxSeq(_)
MaxSeq(q) == IF Len(q) = 1 THEN q[1] ELSE Max(Head(q), MaxSeq(Tail(q)))

\* [...new Set(q)]: the distinct elements in order of first appearance
RECURSIVE Distinct(_)
Distinct(q) ==
    IF q = <<>> THEN <<>>
    ELSE LET front == Distinct(SubSeq(q, 1, Len(q) - 1))
             last == q[Len(q)]
         IN  IF \E i \in 1..Len(front) : front[i] = last THEN front
             ELSE Append(front, last)

Map(q, F(_)) == [i \in 1..Len(q) |-> F(q[i])]

\* reduce((sum, r) => sum + r.<coordinate>, 0) / length: NaN as soon as one
\* member's coordinate is; otherwise the exact quotient num / den
average(q) ==
    IF \E i \in 1..Len(q) : ~IsNum(q[i]) THEN NaN
    ELSE Num([num |-> SumSeq([i \in 1..Len(q) |-> q[i][1]]), den |-> Len(q)])

\* the severity cut-offs with 7 in place of 6
hotspotSeverityCutoffSeven(severityScore) ==
    IF severityScore > 10 THEN "critical"
    ELSE IF severityScore > 7 THEN "high"
    ELSE "medium"

\* severityScore > 10 ? 'critical' : severityScore > 6 ? 'high' : 'medium'
hotspotSeverity(severityScore) ==
    IF severityScore > 10 THEN "critical"
    ELSE IF severityScore > 6 THEN "high"
    ELSE "medium"

\* the object built by the .map callback for one cluster
makeHotspot(key, clusterReports) ==
    LET lat(r) == r.latitude
        lng(r) == r.longitude
        weight(r) == severityWeight(r.severity)
        type(r) == r.type
        time(r) == r.timestamp[1]
        people(r) == OrZero(parseInt(r.peopleAffected))
    IN  [id             |-> key,
         latitude       |-> average(Map(clusterReports, lat)),
         longitude      |-> average(Map(clusterReports, lng)),
         reportCount    |-> Len(clusterReports),
         severity       |-> hotspotSeverity(SumSeq(Map(clusterReports, weight))),
         types          |-> Distinct(Map(clusterReports, type)),
         lastUpdate     |-> MaxSeq(Map(clusterReports, time)),
         affectedPeople |-> SumSeq(Map(clusterReports, people))]

\* the reports of the collection generateHotspots groups at clock reading t
recentReports(rs, t) == SelectSeq(rs, LAMBDA r : inTimeWindow(r, t))

\* Object.entries(locationClusters): the keys in order of first insertion,
\* each with its reports in collection order
clusterKeys(rs) == Distinct(Map(rs, clusterKey))
clusterOf(rs, key) == SelectSeq(rs, LAMBDA r : clusterKey(r) = key)

\* generateHotspots keeping every cluster, the one-report clusters too
generateHotspotsAnyCluster(rs, t) ==
    LET recent == recentReports(rs, t)
        dense == SelectSeq(clusterKeys(recent),
                           LAMBDA key : Len(clusterOf(recent, key)) >= 1)
    IN  [i \in 1..Len(dense) |-> makeHotspot(dense[i], clusterOf(recent, dense[i]))]

\* generateHotspots adding to the stored list instead of replacing it
generateHotspotsAppending(rs, t) ==
    LET recent == recentReports(rs, t)
        dense == SelectSeq(clusterKeys(recent),
                           LAMBDA key : Len(clusterOf(recent, key)) >= 2)
    IN  hotspots \o
        [i \in 1..Len(dense) |-> makeHotspot(dense[i], clusterOf(recent, dense[i]))]

\* the list generateHotspots() assigns to hotspots, from the collection rs
\* at Date.now() = t
generateHotspots(rs, t) ==
    LET recent == recentReports(rs, t)
        dense == SelectSeq(clusterKeys(recent),
                           LAMBDA key : Len(clusterOf(recent, key)) >= 2)
    IN  [i \in 1..Len(dense) |-> makeHotspot(dense[i], clusterOf(recent, dense[i]))]

-----------------------------------------------------------------------------
(* Inputs of the text analyser *)

MaxWords == 2

\* words the bounded texts are built from
Vocabulary == {"Flood", "flooding", "rainstorm", "wildfire", "emergency",
               "urgent", "unsafe", "rescue"}

\* texts of particular interest: the empty text, the end-to-end scenario's
\* description, a text with three urgency keywords, one with four urgency
\* and six hazard keywords, one with a repeated keyword, one with none
ScenarioText == "urgent flood emergency near the coast"
UrgentText == "help urgent rescue"
SampleTexts == {"", ScenarioText, UrgentText,
                "urgent critical immediate rescue flooding rainstorm wildfire",
                "fire fire fire",
                "all clear"}

RECURSIVE Phrases(_)
Phrases(n) ==
    IF n = 0 THEN {""}
    ELSE LET shorter == Phrases(n - 1)
         IN  shorter \cup Vocabulary
                     \cup {p \o " " \o w : p \in shorter \ {""}, w \in Vocabulary}

Texts == SampleTexts \cup Phrases(MaxWords)

\* what a caller may hand to analyzeText: a string, or null/undefined
TextArgs == {Some(t) : t \in Texts} \cup {Undefined}

-----------------------------------------------------------------------------
(* Requests *)

MaxReports == 3
MaxSyncBatch == 2
MaxTicks == 2

\* hours the clock advances in one step of the environment
TickHours == 12

Body(description, severity, type, latitude, longitude, peopleAffected) ==
    [description    |-> description,
     severity       |-> severity,
     type           |-> type,
     latitude       |-> latitude,
     longitude      |-> longitude,
     peopleAffected |-> peopleAffected]

\* req.body of POST /api/reports: the end-to-end scenario's report, a
\* report of the same grid cell whose text alone is urgent, and two reports
\* of another cell, one of them with neither description nor severity
ScenarioBody ==
    Body(Some(ScenarioText), Some("critical"), "flood", Num(1900), Num(7280), Some("10"))

ReportBodies ==
    { ScenarioBody,
      Body(Some(UrgentText), Some("high"), "fire", Num(1905), Num(7283), Some("3 families")),
      Body(Some("all clear"), Some("medium"), "storm", Num(-5), Num(5), Some("unknown")),
      Body(Undefined, Undefined, "storm", Num(-5), Num(5), Undefined) }

\* the elements of req.body.offlineReports of POST /api/sync at clock t: a
\* critical and a low report made just now, and a report made at time 0
\* whose severity is none of the four known ones
WithTimestamp(body, timestamp) == [body |-> body, timestamp |-> timestamp]

OfflineReports(t) ==
    { WithTimestamp(Body(Some(UrgentText), Some("critical"), "flood",
                         Num(1900), Num(7280), Some("7")), Num(t)),
      WithTimestamp(Body(Some("all clear"), Some("low"), "fire",
                         Num(1905), Num(7283), Undefined), Num(t)),
      WithTimestamp(Body(Undefined, Some("extreme"), "storm",
                         Num(-5), Num(5), Some("many")), Num(0)) }

SeqsUpTo(S, n) == UNION {[1..k -> S] : k \in 0..n}

-----------------------------------------------------------------------------
(* Early warning *)

\* the condition with its urgency disjunct left out
shouldTriggerEarlyWarningSeverityOnly(report) ==
    report.severity = Some("critical")

\* the condition of POST /api/reports that calls triggerEarlyWarning
shouldTriggerEarlyWarning(report) ==
    \/ report.severity = Some("critical")
    \/ report.nlpAnalysis[1].urgencyLevel > 7

\* the warning record triggerEarlyWarning builds and logs; reportIndex is
\* the report's position in the collection, kept to tell apart reports that
\* share Date.now() as id
triggerEarlyWarning(report, index, t) ==
    [id          |-> t,
     type        |-> "early_warning",
     severity    |-> report.severity,
     hazardType  |-> report.type,
     location    |-> [lat |-> report.latitude, lng |-> report.longitude],
     timestamp   |-> t,
     reportId    |-> report.id,
     reportIndex |-> index]

-----------------------------------------------------------------------------
(* The server's initial state: app.listen's callback ran generateHotspots  *)
(* over the empty collection                                               *)

ServerInit ==
    /\ reports = <<>>
    /\ hotspots = <<>>
    /\ warnings = <<>>
    /\ now = 0
    /\ hsNow = 0
    /\ rerun = FALSE

\* new OceanMonitor(): no hazards, no monitoring timer, nothing ingested yet.
OceanInit ==
    /\ hazards = <<>>
    /\ timers = 0
    /\ cycle = 0
    /\ lastData = Undefined
    /\ riskArg = Undefined
    /\ riskRet = NotCalled

\* let socialPosts = []; no social request answered yet.
SocialInit ==
    /\ socialPosts = <<>>
    /\ socialArg = Undefined
    /\ socialRet = NotCalled

\* The bounds of the offline manager: reports stored in the local database,
\* calls of syncOfflineData in flight at once, uploads counted per report.
MaxOfflineReports == 2
MaxPasses == 2
MaxUploads == 2

ReportIds == 1..MaxOfflineReports
PassSlots == 1..MaxPasses

\* no call of syncOfflineData in this slot
IdlePass == [pc |-> "idle", unsyncedReports |-> <<>>, next |-> 0]

\* new OfflineManager() on a device with a fresh HazardReportingDB: isOnline is
\* navigator.onLine, the queue is empty, nothing is stored, no sync is running
\* and updateUI has not been called.
OfflineInit ==
    /\ isOnline = TRUE
    /\ syncQueue = <<>>
    /\ dbReports = <<>>
    /\ syncPasses = [p \in PassSlots |-> IdlePass]
    /\ uploaded = [id \in ReportIds |-> 0]
    /\ connectionStatus = "none"

-----------------------------------------------------------------------------
(* Specification of the analyser alone: one call on a bounded input *)

NlpInit ==
    /\ nlpArg \in TextArgs
    /\ nlpRet = NotCalled
    /\ ServerInit
    /\ OceanInit
    /\ SocialInit
    /\ OfflineInit

CallAnalyzeText ==
    /\ nlpRet = NotCalled
    /\ nlpRet' = analyzeText(nlpArg)
    /\ UNCHANGED <<nlpArg, serverVars, oceanVars, socialVars, offlineVars>>

NlpNext == CallAnalyzeText

SpecNlp == NlpInit /\ [][NlpNext]_vars


-----------------------------------------------------------------------------
(* The server's handlers *)

\* (req.body.description || ''): undefined and the empty string are falsy
orEmptyString(description) ==
    IF IsDefined(description) THEN description ELSE Some("")

\* nlpEngine.analyzeText(req.body.description || '') for each description a
\* request of ReportBodies carries; a table, so that the analysis of a text
\* is evaluated once
analysisOfDescription ==
    [description \in {body.description : body \in ReportBodies} |->
        analyzeText(orEmptyString(description))]

\* the report object POST /api/reports builds from req.body at clock t
newReport(body, t) ==
    [id             |-> Some(t),
     description    |-> body.description,
     severity       |-> body.severity,
     type           |-> body.type,
     latitude       |-> body.latitude,
     longitude      |-> body.longitude,
     peopleAffected |-> body.peopleAffected,
     timestamp      |-> Num(t),
     verified       |-> Some(FALSE),
     nlpAnalysis    |-> Some(analysisOfDescription[body.description].value),
     syncedAt       |-> Undefined]

\* the object POST /api/sync pushes: the client's object with syncedAt set
syncedReport(body, timestamp, t) ==
    [id             |-> Undefined,
     description    |-> body.description,
     severity       |-> body.severity,
     type           |-> body.type,
     latitude       |-> body.latitude,
     longitude      |-> body.longitude,
     peopleAffected |-> body.peopleAffected,
     timestamp      |-> timestamp,
     verified       |-> Undefined,
     nlpAnalysis    |-> Undefined,
     syncedAt       |-> Some(t)]

\* app.post('/api/reports')
PostReport ==
    /\ Len(reports) < MaxReports
    /\ \E body \in ReportBodies :
         LET report == newReport(body, now)
         IN  /\ reports' = Append(reports, report)
             /\ hotspots' = generateHotspots(reports', now)
             /\ warnings' = IF shouldTriggerEarlyWarning(report)
                            THEN Append(warnings,
                                        triggerEarlyWarning(report, Len(reports'), now))
                            ELSE warnings
    /\ hsNow' = now
    /\ rerun' = FALSE
    /\ UNCHANGED <<now, nlpVars, oceanVars, socialVars, offlineVars>>

\* POST /api/sync with the generateHotspots() call of line 398 left out
PostSyncWithoutRecompute ==
    /\ \E offlineReports \in SeqsUpTo(OfflineReports(now), MaxSyncBatch) :
         /\ Len(reports) + Len(offlineReports) <= MaxReports
         /\ reports' = reports \o
                [i \in 1..Len(offlineReports) |->
                    syncedReport(offlineReports[i].body, offlineReports[i].timestamp, now)]
    /\ UNCHANGED <<hotspots, hsNow, rerun, warnings, now, nlpVars, oceanVars, socialVars, offlineVars>>

\* app.post('/api/sync')
PostSync ==
    /\ \E offlineReports \in SeqsUpTo(OfflineReports(now), MaxSyncBatch) :
         /\ Len(reports) + Len(offlineReports) <= MaxReports
         /\ reports' = reports \o
                [i \in 1..Len(offlineReports) |->
                    syncedReport(offlineReports[i].body, offlineReports[i].timestamp, now)]
    /\ hotspots' = generateHotspots(reports', now)
    /\ hsNow' = now
    /\ rerun' = (reports' = reports)
    /\ UNCHANGED <<warnings, now, nlpVars, oceanVars, socialVars, offlineVars>>

\* app.get('/api/hotspots')
GetHotspots ==
    /\ hotspots' = generateHotspots(reports, now)
    /\ hsNow' = now
    /\ rerun' = TRUE
    /\ UNCHANGED <<reports, warnings, now, nlpVars, oceanVars, socialVars, offlineVars>>

\* setInterval(generateHotspots, 5 * 60 * 1000)
TimerRefresh ==
    /\ hotspots' = generateHotspots(reports, now)
    /\ hsNow' = now
    /\ rerun' = TRUE
    /\ UNCHANGED <<reports, warnings, now, nlpVars, oceanVars, socialVars, offlineVars>>

\* time passes
Tick ==
    /\ now + TickHours <= MaxTicks * TickHours
    /\ now' = now + TickHours
    /\ UNCHANGED <<reports, hotspots, warnings, hsNow, rerun, nlpVars, oceanVars, socialVars, offlineVars>>

Init ==
    /\ nlpArg = Undefined
    /\ nlpRet = NotCalled
    /\ ServerInit
    /\ OceanInit
    /\ SocialInit
    /\ OfflineInit

Next ==
    \/ PostReport
    \/ PostSync
    \/ GetHotspots
    \/ TimerRefresh
    \/ Tick

Spec == Init /\ [][Next]_vars

-----------------------------------------------------------------------------
(* Properties of the text analyser, checked under SpecNlp *)

\* the result the specification calls zero-signal; the code's "no hazard"
\* value of hazardType is null
ZeroSignal ==
    [hazardType |-> Null, urgencyLevel |-> 0, keywords |-> <<>>,
     sentiment |-> "neutral", confidence |-> 0]

\* C1: analyzeText never throws, and for an absent (null/undefined) or empty
\* text it returns the zero-signal result: no hazard type, urgencyLevel 0,
\* sentiment "neutral", confidence 0 and no matched keyword.
C1_NeverThrowsZeroSignal ==
    nlpRet # NotCalled =>
        /\ nlpRet.status = "returned"
        /\ nlpArg \in {Undefined, Some("")} => nlpRet.value = ZeroSignal

\* the first category, in declaration order, one of whose keywords occurs
\* in the lower-cased text; null when none does
CategoryMatches(i, lowerText) ==
    \E k \in 1..Len(hazardKeywords[i].keywords) :
        includes(lowerText, hazardKeywords[i].keywords[k])

FirstMatchingCategory(lowerText) ==
    LET matching == {i \in 1..Len(hazardKeywords) : CategoryMatches(i, lowerText)}
    IN  IF matching = {} THEN Null
        ELSE hazardKeywords[CHOOSE i \in matching : \A j \in matching : i <= j].type

\* C2: when keywords of several hazard categories occur in a text, the
\* reported hazardType is the category that comes first in the order flood,
\* storm, fire, earthquake, tsunami, accident; so every text with a flood
\* keyword is reported as "flood".
C2_FirstCategoryWins ==
    nlpRet.status = "returned" =>
        nlpRet.value.hazardType = FirstMatchingCategory(toLowerCase(ValueOf(nlpArg)))

\* the number of keywords of the list that occur in the lower-cased text
OccurringKeywords(keywords, lowerText) ==
    Cardinality({k \in 1..Len(keywords) : includes(lowerText, keywords[k])})

RECURSIVE OccurringHazardKeywords(_, _)
OccurringHazardKeywords(i, lowerText) ==
    IF i > Len(hazardKeywords) THEN 0
    ELSE OccurringKeywords(hazardKeywords[i].keywords, lowerText)
         + OccurringHazardKeywords(i + 1, lowerText)

\* C4: for every input text, whatever number of hazard and urgency keywords
\* it contains or repeats, confidence and urgencyLevel lie in [0, 1]
\* (0..10 tenths).
C4_ScoresInUnitInterval ==
    nlpRet.status = "returned" =>
        /\ nlpRet.value.confidence \in 0..10
        /\ nlpRet.value.urgencyLevel \in 0..10

\* C4 witness: a text with six hazard keywords (6 * 0.2 > 1) and four
\* urgency keywords (4 * 0.3 > 1) has been analysed, both scores came out 1
C4_ClampedWitness ==
    /\ nlpRet.status = "returned"
    /\ OccurringHazardKeywords(1, toLowerCase(ValueOf(nlpArg))) >= 6
    /\ OccurringKeywords(urgencyKeywords, toLowerCase(ValueOf(nlpArg))) >= 4
    /\ nlpRet.value.confidence = 10
    /\ nlpRet.value.urgencyLevel = 10

-----------------------------------------------------------------------------
(* Properties of the server, checked under Spec *)

\* the reports POST /api/reports stored (POST /api/sync sets syncedAt)
Submitted(report) == ~IsDefined(report.syncedAt)

\* the warnings dispatched for the report at position i of the collection
WarningsFor(i) == {k \in 1..Len(warnings) : warnings[k].reportIndex = i}

IsScenarioReport(report) ==
    /\ Submitted(report)
    /\ report.description = Some(ScenarioText)
    /\ report.severity = Some("critical")
    /\ report.latitude = Num(1900)
    /\ report.longitude = Num(7280)

\* C3: the report {description "urgent flood emergency near the coast",
\* severity "critical", lat 19.0, lng 72.8} submitted through the report
\* endpoint gets an analysis with hazardType "flood", urgencyLevel > 0 and
\* confidence > 0, and an early warning is triggered for it.
C3_ScenarioReportIsFlood ==
    \A i \in 1..Len(reports) :
        IsScenarioReport(reports[i]) =>
            /\ IsDefined(reports[i].nlpAnalysis)
            /\ reports[i].nlpAnalysis[1].hazardType = "flood"
            /\ reports[i].nlpAnalysis[1].urgencyLevel > 0
            /\ reports[i].nlpAnalysis[1].confidence > 0
            /\ WarningsFor(i) # {}

\* C5: for every report accepted by the report-submission handler, an early
\* warning is dispatched if and only if its severity is "critical" or its
\* analysis urgencyLevel is greater than 0.7, and at most once.
C5_WarningIffCriticalOrUrgent ==
    \A i \in 1..Len(reports) :
        Submitted(reports[i]) =>
            Cardinality(WarningsFor(i)) =
                IF \/ reports[i].severity = Some("critical")
                   \/ reports[i].nlpAnalysis[1].urgencyLevel > 7
                THEN 1 ELSE 0

\* C5 witness: a submitted report that is not critical but urgent has its
\* one warning, a critical one of urgency 0.6 has its one warning, and a
\* submitted report that is neither has none
C5_AllCasesWitness ==
    \E i, j, k \in 1..Len(reports) :
        /\ Submitted(reports[i]) /\ Submitted(reports[j]) /\ Submitted(reports[k])
        /\ reports[i].severity # Some("critical")
        /\ reports[i].nlpAnalysis[1].urgencyLevel > 7
        /\ Cardinality(WarningsFor(i)) = 1
        /\ reports[j].severity = Some("critical")
        /\ reports[j].nlpAnalysis[1].urgencyLevel <= 7
        /\ Cardinality(WarningsFor(j)) = 1
        /\ reports[k].severity # Some("critical")
        /\ reports[k].nlpAnalysis[1].urgencyLevel <= 7
        /\ WarningsFor(k) = {}

\* C6: every report in the collection, whichever endpoint added it, carries
\* an analysis equal to analyze(its description).
C6_EveryReportCarriesItsAnalysis ==
    \A i \in 1..Len(reports) :
        /\ IsDefined(reports[i].nlpAnalysis)
        /\ Some(reports[i].nlpAnalysis[1]) =
               Some(analyzeText(orEmptyString(reports[i].description)).value)

\* C7: every report that enters the collection goes through analysis,
\* storage, hotspot recompute and alert-policy evaluation; so every
\* "critical" report of the collection, one added by offline sync included,
\* has triggered an early warning.
C7_EveryCriticalReportWarns ==
    \A i \in 1..Len(reports) :
        reports[i].severity = Some("critical") => WarningsFor(i) # {}

\* C8 as stated: a run of generateHotspots over an unchanged report
\* collection leaves the hotspot list as the run before it stored it.
C8_RerunLeavesHotspotsUnchanged ==
    [][reports' = reports => hotspots' = hotspots]_vars

\* C8 amended: a run of generateHotspots over an unchanged report collection
\* at the clock reading of the run before it stores the identical list,
\* whatever the stored list was.
C8_RerunAtSameClockIdempotent ==
    [][(reports' = reports /\ hsNow' = hsNow) => hotspots' = hotspots]_vars

\* C8 witness: generateHotspots has run again over the collection and at
\* the clock reading of the run before it, and the list holds a hotspot
C8_RerunWitness ==
    /\ rerun
    /\ hsNow = now
    /\ hotspots # <<>>

\* the in-window reports, at the latest generateHotspots run, of grid cell key
CellMembers(key) ==
    {i \in 1..Len(reports) :
        /\ inTimeWindow(reports[i], hsNow)
        /\ clusterKey(reports[i]) = key}

\* C9: after any sequence of submissions, syncs, timer refreshes and hotspot
\* queries every stored hotspot has reportCount >= 2, the number of in-window
\* reports of its cell; a cell with exactly one never has a hotspot.
C9_HotspotsHaveTwoReports ==
    \A h \in 1..Len(hotspots) :
        /\ hotspots[h].reportCount >= 2
        /\ hotspots[h].reportCount = Cardinality(CellMembers(hotspots[h].id))

\* C9 witness: at the latest run one cell held exactly one in-window report
\* and another cell held two; the list holds the second cell only
C9_LoneReportWitness ==
    /\ hsNow = now
    /\ \E i \in 1..Len(reports) : Cardinality(CellMembers(clusterKey(reports[i]))) = 1
    /\ Len(hotspots) = 1

\* weights critical 4, high 3, medium 2, low 1, anything else 1
ClaimedWeight(severity) ==
    IF severity = Some("critical") THEN 4
    ELSE IF severity = Some("high") THEN 3
    ELSE IF severity = Some("medium") THEN 2
    ELSE 1

RECURSIVE ClaimedScore(_)
ClaimedScore(members) ==
    IF members = {} THEN 0
    ELSE LET i == CHOOSE m \in members : TRUE
         IN  ClaimedWeight(reports[i].severity) + ClaimedScore(members \ {i})

\* C10: a hotspot's severity follows from the sum of its members' weights
\* (critical 4, high 3, medium 2, low 1, other or missing 1): above 10
\* "critical", 7..10 "high", otherwise "medium"; two "critical" reports make
\* a "high" hotspot and no hotspot is "low".
C10_SeverityFromWeightSum ==
    \A h \in 1..Len(hotspots) :
        LET members == CellMembers(hotspots[h].id)
            score == ClaimedScore(members)
        IN  /\ hotspots[h].severity =
                  IF score > 10 THEN "critical"
                  ELSE IF score \in 7..10 THEN "high"
                  ELSE "medium"
            /\ hotspots[h].severity # "low"
            /\ (Cardinality(members) = 2
                  /\ \A i \in members : reports[i].severity = Some("critical"))
               => hotspots[h].severity = "high"

\* C10 witness: a hotspot of exactly two "critical" reports, stored "high"
C10_TwoCriticalWitness ==
    \E h \in 1..Len(hotspots) :
        /\ Cardinality(CellMembers(hotspots[h].id)) = 2
        /\ \A i \in CellMembers(hotspots[h].id) : reports[i].severity = Some("critical")
        /\ hotspots[h].severity = "high"

\* the reports of grid cell key that are younger than 24 hours now
FreshMembers(key) ==
    {i \in 1..Len(reports) :
        /\ clusterKey(reports[i]) = key
        /\ IsNum(reports[i].timestamp)
        /\ now - reports[i].timestamp[1] < 24}

RECURSIVE PeopleOf(_)
PeopleOf(members) ==
    IF members = {} THEN 0
    ELSE LET i == CHOOSE m \in members : TRUE
         IN  OrZero(parseInt(reports[i].peopleAffected)) + PeopleOf(members \ {i})

\* C11: every hotspot list the hotspot query returns (the list stored by a
\* run at the present clock reading) is built only from reports younger than
\* 24 hours at the query: count, severity, types and affectedPeople of each
\* hotspot are those of its cell's reports with now - timestamp < 24 h.
C11_QueryUsesOnlyFreshReports ==
    (rerun /\ hsNow = now) =>
        \A h \in 1..Len(hotspots) :
            LET fresh == FreshMembers(hotspots[h].id)
                score == ClaimedScore(fresh)
            IN  /\ hotspots[h].reportCount = Cardinality(fresh)
                /\ hotspots[h].severity =
                      IF score > 10 THEN "critical"
                      ELSE IF score > 6 THEN "high" ELSE "medium"
                /\ {hotspots[h].types[k] : k \in 1..Len(hotspots[h].types)}
                      = {reports[i].type : i \in fresh}
                /\ hotspots[h].affectedPeople = PeopleOf(fresh)
                /\ \A i \in fresh : hotspots[h].lastUpdate >= reports[i].timestamp[1]

\* C11 witness: the query has just returned a hotspot of a cell that also
\* holds a report exactly 24 hours old
C11_StaleReportInCellWitness ==
    /\ rerun
    /\ hsNow = now
    /\ \E h \in 1..Len(hotspots) : \E i \in 1..Len(reports) :
          /\ clusterKey(reports[i]) = hotspots[h].id
          /\ IsNum(reports[i].timestamp)
          /\ now - reports[i].timestamp[1] = 24

\* C12: after every handler that adds reports to the collection, the stored
\* hotspot list is the result of a full recompute over the new collection.
C12_RecomputedAfterEveryAddition ==
    [][reports' # reports => hotspots' = generateHotspots(reports', now')]_vars

\* C12 witness: offline sync has just added reports and the list holds the
\* hotspot of a cell with a synced report
C12_SyncedHotspotWitness ==
    /\ ~rerun
    /\ hsNow = now
    /\ \E h \in 1..Len(hotspots) : \E i \in 1..Len(reports) :
          /\ ~Submitted(reports[i])
          /\ reports[i].syncedAt = Some(now)
          /\ clusterKey(reports[i]) = hotspots[h].id


-----------------------------------------------------------------------------
\* Ocean monitor (src/ocean-api.js) and its routes (src/server.js).
\* Coordinates are in 1e-4 degree, distances in metres rounded down, the
\* proximity in 1e-5, hazard weights in tenths, risk values in millionths.
\* A coordinate is Num(n), or NaN when the request left it out.

Position(lat, lng) == [lat |-> lat, lng |-> lng]

\* the three places processWeatherData reports hazards at
StormSite == Position(Num(205937), Num(789629))
WavesSite == Position(Num(190000), Num(728000))
VisibilitySite == Position(Num(130000), Num(802000))

\* two places on the meridian of WavesSite, 0.45 and 0.9 degree north of it
Offshore50km == Position(Num(194500), Num(728000))
Offshore100km == Position(Num(199000), Num(728000))

Abs(x) == IF x < 0 THEN -x ELSE x

\* The haversine formula between two points of one meridian is the arc
\* R * dLat: 6371 km * pi / 180 = 11.1195 m for each 1e-4 degree.
meridianArc(dLat) == (Abs(dLat) * 111195) \div 10000

\* The value of the haversine formula (R = 6371) for the pairs of the model's
\* places that differ in longitude.
haversineTable(pos1, pos2) ==
    CASE {pos1, pos2} = {StormSite, WavesSite} -> 668629
      [] {pos1, pos2} = {StormSite, VisibilitySite} -> 854569
      [] {pos1, pos2} = {WavesSite, VisibilitySite} -> 1034390
      [] {pos1, pos2} = {StormSite, Offshore50km} -> 656254
      [] {pos1, pos2} = {StormSite, Offshore100km} -> 647508
      [] {pos1, pos2} = {VisibilitySite, Offshore50km} -> 1066631
      [] {pos1, pos2} = {VisibilitySite, Offshore100km} -> 1100191

\* calculateDistance(pos1, pos2): a missing coordinate makes every term NaN.
calculateDistance(pos1, pos2) ==
    IF ~(IsNum(pos1.lat) /\ IsNum(pos1.lng) /\ IsNum(pos2.lat) /\ IsNum(pos2.lng))
    THEN NaN
    ELSE IF pos1.lng = pos2.lng
         THEN Num(meridianArc(pos2.lat[1] - pos1.lat[1]))
         ELSE Num(haversineTable(pos1, pos2))

\* 1 - distance / 100 without the Math.max(0, ...) around it
proximityUnfloored(distance) ==
    IF IsNum(distance) THEN Num(100000 - distance[1]) ELSE NaN

\* Math.max(0, 1 - distance / 100); Math.max(0, NaN) is NaN
proximity(distance) ==
    IF IsNum(distance) THEN Num(Max(0, 100000 - distance[1])) ELSE NaN

\* a + b and a * b of JavaScript numbers
plus(a, b) == IF IsNum(a) /\ IsNum(b) THEN Num(a[1] + b[1]) ELSE NaN
times(a, b) == IF IsNum(a) /\ IsNum(b) THEN Num(a[1] * b[1]) ELSE NaN

FactorNames == {"storm", "waves", "wind", "visibility"}

\* the factor of the switch statement's cases, in tenths
hazardWeight(hazard) ==
    CASE hazard.type = "storm" -> IF hazard.severity = "high" THEN 8 ELSE 5
      [] hazard.type = "waves" -> IF hazard.severity = "high" THEN 7 ELSE 4
      [] hazard.type = "wind" -> 3
      [] hazard.type = "visibility" -> 2

\* const riskFactors = { storm: 0, waves: 0, wind: 0, visibility: 0 }
noRisk == [storm |-> Num(0), waves |-> Num(0), wind |-> Num(0), visibility |-> Num(0)]

\* the forEach body with a default case that counts the hazard as wind
addHazardDefaultWind(riskFactors, hazard, location) ==
    LET distance == calculateDistance(location, hazard.location)
    IN  IF hazard.type \in FactorNames
        THEN [riskFactors EXCEPT ![hazard.type] =
                  plus(@, times(proximity(distance), Num(hazardWeight(hazard))))]
        ELSE [riskFactors EXCEPT !.wind = plus(@, times(proximity(distance), Num(3)))]

\* the body of this.hazards.forEach for one hazard
addHazard(riskFactors, hazard, location) ==
    LET distance == calculateDistance(location, hazard.location)
    IN  IF hazard.type \in FactorNames
        THEN [riskFactors EXCEPT ![hazard.type] =
                  plus(@, times(proximity(distance), Num(hazardWeight(hazard))))]
        ELSE riskFactors

RECURSIVE analyzeHazards(_, _, _, _)
analyzeHazards(hz, i, location, riskFactors) ==
    IF i > Len(hz) THEN riskFactors
    ELSE analyzeHazards(hz, i + 1, location, addHazard(riskFactors, hz[i], location))

\* Object.values(riskFactors).reduce((a, b) => a + b, 0)
sumOfFactors(riskFactors) ==
    plus(plus(plus(plus(Num(0), riskFactors.storm), riskFactors.waves),
              riskFactors.wind), riskFactors.visibility)

\* Math.max in place of Math.min
overallRiskOfMax(riskFactors) ==
    LET sum == sumOfFactors(riskFactors)
    IN  IF IsNum(sum) THEN Num(Max(1000000, sum[1])) ELSE NaN

\* Math.min(1, sum); Math.min(1, NaN) is NaN
overallRiskOf(riskFactors) ==
    LET sum == sumOfFactors(riskFactors)
    IN  IF IsNum(sum) THEN Num(Min(1000000, sum[1])) ELSE NaN

\* x > bound of JavaScript numbers: false when x is NaN
greaterThan(x, bound) == IF IsNum(x) THEN x[1] > bound ELSE FALSE

riskLevelOf(overallRisk) ==
    IF greaterThan(overallRisk, 700000) THEN "high"
    ELSE IF greaterThan(overallRisk, 400000) THEN "medium"
    ELSE "low"

HighRecommendations ==
    << "Avoid all marine activities",
       "Small vessels should return to harbor immediately",
       "Monitor weather updates continuously",
       "Prepare emergency supplies" >>

MediumRecommendations ==
    << "Exercise caution in marine activities",
       "Monitor weather conditions closely",
       "Ensure safety equipment is ready",
       "Consider postponing non-essential trips" >>

LowRecommendations ==
    << "Normal marine activities permitted",
       "Standard safety precautions advised",
       "Monitor routine weather updates" >>

generateRecommendations(riskLevel) ==
    IF greaterThan(riskLevel, 700000) THEN HighRecommendations
    ELSE IF greaterThan(riskLevel, 400000) THEN MediumRecommendations
    ELSE LowRecommendations

\* the parameter default: timeframe = 24 when the argument is undefined
timeframeOrDefault(timeframe) == IF IsDefined(timeframe) THEN ValueOf(timeframe) ELSE 24

\* an assessRisk whose score grows with the timeframe
assessRiskScaledByTimeframe(hz, location, timeframe, t) ==
    LET riskFactors == analyzeHazards(hz, 1, location, noRisk)
        scaled == [f \in FactorNames |->
                      times(riskFactors[f], Num(timeframeOrDefault(timeframe) \div 24))]
        overallRisk == overallRiskOf(scaled)
    IN  [ overallRisk |-> overallRisk,
          riskLevel |-> riskLevelOf(overallRisk),
          factors |-> scaled,
          recommendations |-> generateRecommendations(overallRisk),
          timestamp |-> t ]

\* assessRisk(location, timeframe) over this.hazards = hz at time t
assessRisk(hz, location, timeframe, t) ==
    LET riskFactors == analyzeHazards(hz, 1, location, noRisk)
        overallRisk == overallRiskOf(riskFactors)
    IN  [ overallRisk |-> overallRisk,
          riskLevel |-> riskLevelOf(overallRisk),
          factors |-> riskFactors,
          recommendations |-> generateRecommendations(overallRisk),
          timestamp |-> t ]

\* --- inputs of the risk assessment

MaxHazards == 2

Hazard(type, severity, location) ==
    [type |-> type, severity |-> severity, location |-> location]

\* hazards of every type assessRisk distinguishes, of one it does not, of
\* both severities, at the waves site and 50 km north of it
HazardSamples ==
    { Hazard(type, severity, location) :
        type \in FactorNames \cup {"tsunami"},
        severity \in {"high", "medium"},
        location \in {WavesSite, Offshore50km} }

RiskBody(latitude, longitude, timeframe) ==
    [latitude |-> latitude, longitude |-> longitude, timeframe |-> timeframe]

\* requests at the waves site, 50 km and 100 km north of it, and one that
\* leaves the latitude out; with the default timeframe and with two others
RiskBodies ==
    { RiskBody(p.lat, p.lng, tf) :
        p \in {WavesSite, Offshore50km, Offshore100km, Position(NaN, Num(728000))},
        tf \in {Undefined, Some(24), Some(48)} }

\* app.post('/api/ocean/risk-assessment')
PostRiskAssessment ==
    \E body \in RiskBodies :
        LET location == Position(body.latitude, body.longitude)
        IN  /\ riskArg' = Some(body)
            /\ riskRet' = Returned(assessRisk(hazards, location, body.timeframe, now))
            /\ UNCHANGED <<hazards, timers, cycle, lastData, nlpVars, serverVars, socialVars, offlineVars>>

\* Risk assessment as a function of the hazard list: any list of up to
\* MaxHazards hazards is active, and requests are answered.
RiskInit ==
    /\ hazards \in SeqsUpTo(HazardSamples, MaxHazards)
    /\ timers = 0
    /\ cycle = 0
    /\ lastData = Undefined
    /\ riskArg = Undefined
    /\ riskRet = NotCalled
    /\ nlpArg = Undefined
    /\ nlpRet = NotCalled
    /\ ServerInit
    /\ SocialInit
    /\ OfflineInit

RiskNext == PostRiskAssessment

SpecRisk == RiskInit /\ [][RiskNext]_vars


-----------------------------------------------------------------------------
\* Claims about the risk assessment

Answered == riskRet.status = "returned"
Answer == riskRet.value
AskedLocation == Position(riskArg[1].latitude, riskArg[1].longitude)

\* C13: with no active hazard, assessRisk returns overallRisk 0, riskLevel
\* "low", the four factor totals 0 and the low-tier recommendations, for
\* every query location (one without a latitude included), without error.
C13_EmptyHazardListIsLowRisk ==
    (riskRet # NotCalled /\ hazards = <<>>) =>
        /\ Answered
        /\ Answer.overallRisk = Num(0)
        /\ Answer.riskLevel = "low"
        /\ \A f \in FactorNames : Answer.factors[f] = Num(0)
        /\ DOMAIN Answer.factors = FactorNames
        /\ Answer.recommendations = LowRecommendations

\* C13 witness: a request that leaves the latitude out has been answered
\* while no hazard is active
C13_EmptyListAnsweredWitness ==
    /\ hazards = <<>>
    /\ Answered
    /\ ~IsNum(riskArg[1].latitude)


TierOf(level) ==
    CASE level = "high" -> HighRecommendations
      [] level = "medium" -> MediumRecommendations
      [] level = "low" -> LowRecommendations

\* C14: for every hazard list and location, overallRisk is min(1, storm +
\* waves + wind + visibility) and lies in [0,1]; riskLevel is "high" iff
\* overallRisk > 0.7, "medium" iff 0.4 < overallRisk <= 0.7, else "low"; the
\* recommendations are the tier of riskLevel.
C14_RiskInUnitIntervalAndTiered ==
    Answered =>
        LET risk == Answer.overallRisk
            sum == sumOfFactors(Answer.factors)
        IN  /\ IsNum(risk)
            /\ IsNum(sum)
            /\ risk[1] = IF sum[1] < 1000000 THEN sum[1] ELSE 1000000
            /\ 0 <= risk[1]
            /\ risk[1] <= 1000000
            /\ Answer.riskLevel = "high" <=> risk[1] > 700000
            /\ Answer.riskLevel = "medium" <=> (400000 < risk[1] /\ risk[1] <= 700000)
            /\ Answer.riskLevel \in {"high", "medium", "low"}
            /\ Answer.recommendations = TierOf(Answer.riskLevel)


NumericRequest == Answered /\ IsNum(AskedLocation.lat) /\ IsNum(AskedLocation.lng)

DistanceTo(i) == calculateDistance(AskedLocation, hazards[i].location)[1]

ClaimedProximity(metres) == IF metres >= 100000 THEN 0 ELSE 100000 - metres

ClaimedHazardWeight(hazard) ==
    IF hazard.type = "storm" /\ hazard.severity = "high" THEN 8
    ELSE IF hazard.type = "storm" THEN 5
    ELSE IF hazard.type = "waves" /\ hazard.severity = "high" THEN 7
    ELSE IF hazard.type = "waves" THEN 4
    ELSE IF hazard.type = "wind" THEN 3
    ELSE IF hazard.type = "visibility" THEN 2
    ELSE 0

RECURSIVE ClaimedFactor(_, _)
ClaimedFactor(f, i) ==
    IF i = 0 THEN 0
    ELSE ClaimedFactor(f, i - 1)
         + (IF hazards[i].type = f
            THEN ClaimedProximity(DistanceTo(i)) * ClaimedHazardWeight(hazards[i])
            ELSE 0)

\* C15: for a request with numeric coordinates, every factor total is the sum
\* of proximity x weight over the active hazards of that factor's type, with
\* proximity 1 at distance 0, linear in the distance and 0 from 100 km on, and
\* the weights storm 0.8/0.5, waves 0.7/0.4, wind 0.3, visibility 0.2; when
\* every hazard is farther than 100 km all factors are 0, and a single
\* high-severity storm at the query location gives a storm factor of 0.8.
C15_FactorsAreProximityTimesWeight ==
    NumericRequest =>
        /\ \A f \in FactorNames :
              Answer.factors[f] = Num(ClaimedFactor(f, Len(hazards)))
        /\ (\A i \in 1..Len(hazards) : DistanceTo(i) > 100000) =>
              \A f \in FactorNames : Answer.factors[f] = Num(0)
        /\ (Len(hazards) = 1 /\ hazards[1].type = "storm" /\ hazards[1].severity = "high"
                /\ hazards[1].location = AskedLocation) =>
              Answer.factors.storm = Num(800000)

\* C15 witness: a request has been answered with one hazard farther than
\* 100 km and another one 50 km away that raised its factor
C15_FarAndNearHazardWitness ==
    /\ NumericRequest
    /\ Len(hazards) = 2
    /\ DistanceTo(1) > 100000
    /\ DistanceTo(2) = 50037
    /\ hazards[1].type = "storm"
    /\ Answer.factors.storm = Num(0)
    /\ hazards[2].type = "waves"
    /\ Answer.factors.waves = Num(49963 * 7)


Timeframes == {Undefined, Some(1), Some(24), Some(48), Some(168)}

\* C16: the response to a risk request is the one assessRisk gives, for the
\* same location and the same active hazards, with any other timeframe:
\* overallRisk, riskLevel, factor totals and recommendations do not depend
\* on the timeframe.
C16_TimeframeIsIgnored ==
    Answered =>
        \A timeframe \in Timeframes :
            LET other == assessRisk(hazards, AskedLocation, timeframe, now)
            IN  /\ other.overallRisk = Answer.overallRisk
                /\ other.riskLevel = Answer.riskLevel
                /\ other.factors = Answer.factors
                /\ other.recommendations = Answer.recommendations

\* C16 witness: a request with a 48-hour timeframe has been answered with a
\* risk above 0
C16_LongTimeframeWitness ==
    /\ Answered
    /\ riskArg[1].timeframe = Some(48)
    /\ greaterThan(Answer.overallRisk, 0)


-----------------------------------------------------------------------------
\* Weather ingestion (src/ocean-api.js). Wind speed, wave height and
\* visibility are in tenths of their unit.

MaxCycles == 3
MaxTimers == 2

Current(windSpeed, waveHeight, visibility) ==
    [windSpeed |-> windSpeed, waveHeight |-> waveHeight, visibility |-> visibility]

\* mockData.current of fetchWeatherData: windSpeed in [30, 60), waveHeight in
\* [1.5, 4.5), visibility in [5, 15); values on and off the thresholds
MockData ==
    { Current(windSpeed, waveHeight, 100) :
        windSpeed \in {500, 550}, waveHeight \in {30, 40, 42} }

\* the object processWeatherData pushes; cycle is a history field, the
\* number of the ingestion cycle that pushed it
ActiveHazard(type, severity, description, location, t, c) ==
    [ type |-> type, severity |-> severity, description |-> description,
      location |-> location, timestamp |-> t, cycle |-> c ]

\* the storm branch pushing a wind hazard next to the storm
stormHazardsWithWind(current, t, c) ==
    IF current.windSpeed > 500
    THEN << ActiveHazard("storm", IF current.windSpeed > 700 THEN "high" ELSE "medium",
                         <<"High wind speeds detected", current.windSpeed>>,
                         StormSite, t, c),
            ActiveHazard("wind", "medium",
                         <<"High wind speeds detected", current.windSpeed>>,
                         StormSite, t, c) >>
    ELSE <<>>

stormHazards(current, t, c) ==
    IF current.windSpeed > 500
    THEN << ActiveHazard("storm", IF current.windSpeed > 700 THEN "high" ELSE "medium",
                         <<"High wind speeds detected", current.windSpeed>>,
                         StormSite, t, c) >>
    ELSE <<>>

wavesHazards(current, t, c) ==
    IF current.waveHeight > 30
    THEN << ActiveHazard("waves", IF current.waveHeight > 40 THEN "high" ELSE "medium",
                         <<"Dangerous wave heights", current.waveHeight>>,
                         WavesSite, t, c) >>
    ELSE <<>>

visibilityHazards(current, t, c) ==
    IF current.visibility < 30
    THEN << ActiveHazard("visibility", "medium",
                         <<"Poor visibility conditions", current.visibility>>,
                         VisibilitySite, t, c) >>
    ELSE <<>>

\* processWeatherData without its first statement: the hazards found are
\* pushed to the list as it was
processWeatherDataMerging(hz, current, t, c) ==
    hz \o stormHazards(current, t, c) \o wavesHazards(current, t, c)
       \o visibilityHazards(current, t, c)

\* processWeatherData(data) at time t in cycle c, this.hazards being hz:
\* the new value of this.hazards
processWeatherData(hz, current, t, c) ==
    LET reset == <<>>
    IN  reset \o stormHazards(current, t, c) \o wavesHazards(current, t, c)
              \o visibilityHazards(current, t, c)

\* fetchWeatherData(): draws the mock data and processes it before it returns
fetchWeatherData ==
    /\ cycle < MaxCycles
    /\ \E current \in MockData :
          /\ hazards' = processWeatherData(hazards, current, now, cycle + 1)
          /\ lastData' = Some(current)
    /\ cycle' = cycle + 1

\* initialize(): loadSensorData, fetchWeatherData, startRealTimeMonitoring.
\* Its awaits are on promises that are already settled, so no other handler
\* runs in between.
initialize ==
    /\ timers < MaxTimers
    /\ fetchWeatherData
    /\ timers' = timers + 1

\* app.listen callback of the ocean server
OceanListen ==
    /\ timers = 0
    /\ cycle = 0
    /\ initialize
    /\ UNCHANGED <<riskArg, riskRet, nlpVars, serverVars, socialVars, offlineVars>>

\* app.get('/api/ocean/status')
GetOceanStatus ==
    /\ timers > 0
    /\ initialize
    /\ UNCHANGED <<riskArg, riskRet, nlpVars, serverVars, socialVars, offlineVars>>

\* app.get('/api/ocean/weather')
GetOceanWeather ==
    /\ timers > 0
    /\ fetchWeatherData
    /\ UNCHANGED <<timers, riskArg, riskRet, nlpVars, serverVars, socialVars, offlineVars>>

\* the setInterval callback of startRealTimeMonitoring, for any of the
\* timers started; broadcastUpdate only logs
MonitorTimer ==
    /\ timers > 0
    /\ fetchWeatherData
    /\ UNCHANGED <<timers, riskArg, riskRet, nlpVars, serverVars, socialVars, offlineVars>>

OceanSpecInit ==
    /\ OceanInit
    /\ nlpArg = Undefined
    /\ nlpRet = NotCalled
    /\ ServerInit
    /\ SocialInit
    /\ OfflineInit

OceanNext ==
    \/ OceanListen
    \/ GetOceanStatus
    \/ GetOceanWeather
    \/ MonitorTimer
    \/ PostRiskAssessment
    \/ Tick

SpecOcean == OceanSpecInit /\ [][OceanNext]_vars

\* Claims about the ingestion

TypesOf(hz) == [i \in 1..Len(hz) |-> hz[i].type]

\* the hazard types the thresholds give for one reading, in push order
ClaimedTypes(current) ==
    (IF current.windSpeed > 500 THEN <<"storm">> ELSE <<>>)
    \o (IF current.waveHeight > 30 THEN <<"waves">> ELSE <<>>)
    \o (IF current.visibility < 30 THEN <<"visibility">> ELSE <<>>)

\* C17: in every state a risk query can run in, whatever ingestion cycles
\* (timer, weather request, initialize) and queries came before, the hazard
\* list is the product of the latest completed cycle alone: empty before the
\* first cycle, afterwards exactly the hazards of the latest reading, every
\* one of them pushed by that cycle; and every answer is computed from it.
C17_HazardsAreLatestSnapshot ==
    /\ [](/\ cycle = 0 => hazards = <<>>
          /\ cycle > 0 =>
                /\ TypesOf(hazards) = ClaimedTypes(lastData[1])
                /\ \A i \in 1..Len(hazards) :
                      /\ hazards[i].cycle = cycle
                      /\ hazards[i].timestamp <= now)
    /\ [][riskRet' # riskRet =>
              /\ hazards' = hazards
              /\ riskRet' = Returned(assessRisk(hazards, AskedLocation', riskArg'[1].timeframe, now))]_vars

\* C17 witness: three cycles have completed, the latest one later than the
\* others and with fewer hazards than lists before it, and a query at the
\* waves site has been answered from its list
C17_QueryAfterThreeCyclesWitness ==
    /\ cycle = 3
    /\ timers = 2
    /\ Len(hazards) = 1
    /\ hazards[1].type = "waves"
    /\ hazards[1].timestamp > 0
    /\ Answered
    /\ Answer.timestamp = now
    /\ AskedLocation = WavesSite
    /\ Answer.factors.storm = Num(0)
    /\ Answer.factors.waves = Num(700000)


-----------------------------------------------------------------------------
\* Social media (src/server.js). A relevance score is in 1e-4: confidence
\* (tenths) * (100 + engagement) (hundredths) * (urgencyLevel + 0.5) (tenths).

MaxPosts == 2
MaxStored == 3

Post(platform, content, engagement) ==
    [platform |-> platform, content |-> content, engagement |-> engagement]

\* posts of a request: no hazard word; one keyword (confidence 0.2); two
\* keywords (0.4) with a relevance below, on and above 0.5; two keywords and
\* urgency; and a post without a content field
SubmittedPosts ==
    { Post("Twitter", Some("all clear"), 200),
      Post("Twitter", Some("Flood"), 200),
      Post("Twitter", Some("flooding"), 0),
      Post("Twitter", Some("flooding"), 150),
      Post("Twitter", Some("flooding"), 200),
      Post("Facebook", Some(ScenarioText), 0),
      Post("Facebook", Undefined, 0) }

\* const mockPosts of GET /api/social/feed
mockPosts ==
    << Post("Twitter", Some("Heavy rainfall in Mumbai causing flooding #MumbaiRains #Emergency"), 150),
       Post("Facebook", Some("Cyclone warning issued for Odisha coast. Please stay safe!"), 89),
       Post("Instagram", Some("Forest fire spreading near Dehradun. Authorities responding."), 67) >>

\* this.analyzeText(post.content) for each content the model's posts carry;
\* a table, so that the analysis of a text is evaluated once
analysisOfContent ==
    [content \in {post.content : post \in SubmittedPosts}
                 \cup {mockPosts[i].content : i \in 1..Len(mockPosts)} |->
        analyzeText(content)]

\* calculateRelevance(post), for a post whose content analyzeText accepts
calculateRelevance(post) ==
    LET analysis == analysisOfContent[post.content].value
    IN  analysis.confidence * (100 + post.engagement) * (analysis.urgencyLevel + 5)

\* the object the map callback of processSocialMedia builds
analyzedPost(post) ==
    [ platform |-> post.platform, content |-> post.content,
      engagement |-> post.engagement,
      analysis |-> analysisOfContent[post.content].value,
      relevanceScore |-> calculateRelevance(post) ]

passesConfidence(post) == post.analysis.confidence > 3

\* processSocialMedia(posts): analyzeText throws out of the map callback
\* for a post without content
processSocialMedia(posts) ==
    IF \E i \in 1..Len(posts) : analysisOfContent[posts[i].content] = Threw
    THEN Threw
    ELSE Returned(SelectSeq([i \in 1..Len(posts) |-> analyzedPost(posts[i])],
                            passesConfidence))

isRelevant(p) == p.relevanceScore > 5000

\* the handler pushing every analyzed post
storedPostsAll(analyzedPosts) == analyzedPosts

\* analyzedPosts.filter(p => p.relevanceScore > 0.5)
storedPosts(analyzedPosts) == SelectSeq(analyzedPosts, isRelevant)

\* app.post('/api/social/analyze')
PostSocialAnalyze ==
    \E posts \in SeqsUpTo(SubmittedPosts, MaxPosts) :
        LET processed == processSocialMedia(posts)
        IN  /\ socialArg' = Some(posts)
            /\ IF processed = Threw
               THEN /\ socialRet' = Threw
                    /\ socialPosts' = socialPosts
               ELSE LET analyzedPosts == processed.value
                        relevant == storedPosts(analyzedPosts)
                    IN  /\ Len(socialPosts) + Len(relevant) <= MaxStored
                        /\ socialPosts' = socialPosts \o relevant
                        /\ socialRet' = Returned([ analyzed |-> Len(analyzedPosts),
                                                   relevant |-> Len(relevant),
                                                   posts |-> analyzedPosts ])
            /\ UNCHANGED <<nlpVars, serverVars, oceanVars, offlineVars>>

\* app.get('/api/social/feed')
GetSocialFeed ==
    /\ socialArg' = Undefined
    /\ socialRet' = Returned([posts |-> processSocialMedia(mockPosts).value])
    /\ UNCHANGED <<socialPosts, nlpVars, serverVars, oceanVars, offlineVars>>

SocialSpecInit ==
    /\ SocialInit
    /\ OfflineInit
    /\ nlpArg = Undefined
    /\ nlpRet = NotCalled
    /\ ServerInit
    /\ OceanInit

SocialNext ==
    \/ PostSocialAnalyze
    \/ GetSocialFeed

SpecSocial == SocialSpecInit /\ [][SocialNext]_vars


\* Claims about the social posts

SocialAnswered == IsDefined(socialArg) /\ socialRet.status = "returned"

\* the analysis of every text a submitted post carries
ClaimedAnalysis ==
    [text \in {ValueOf(post.content) : post \in {p \in SubmittedPosts : IsDefined(p.content)}} |->
        analyzeString(text)]

\* the confidence of a post's analysis; for a post without content the
\* zero-signal analysis of C1 has confidence 0
ClaimedConfidence(post) ==
    IF IsDefined(post.content)
    THEN ClaimedAnalysis[ValueOf(post.content)].confidence
    ELSE 0

ClaimedGatePassing(posts) ==
    SelectSeq(posts, LAMBDA post : ClaimedConfidence(post) > 3)

ClaimedRelevance(post) ==
    LET analysis == ClaimedAnalysis[ValueOf(post.content)]
    IN  analysis.confidence * (100 + post.engagement) * (analysis.urgencyLevel + 5)

\* C18: the batch operation returns exactly the input posts whose analysis
\* confidence is greater than 0.3, in input order, each with its analysis
\* and its relevance attached, whatever the relevance is.
C18_BatchReturnsGatePassingPosts ==
    IsDefined(socialArg) =>
        LET kept == ClaimedGatePassing(socialArg[1])
        IN  /\ socialRet.status = "returned"
            /\ Len(socialRet.value.posts) = Len(kept)
            /\ \A k \in 1..Len(kept) :
                  LET out == socialRet.value.posts[k]
                  IN  /\ out.platform = kept[k].platform
                      /\ out.content = kept[k].content
                      /\ out.engagement = kept[k].engagement
                      /\ out.analysis = ClaimedAnalysis[ValueOf(kept[k].content)]
                      /\ out.relevanceScore = ClaimedRelevance(kept[k])


SamePost(stored, post) ==
    /\ stored.platform = post.platform
    /\ stored.content = post.content
    /\ stored.engagement = post.engagement

\* C19 as stated: after a social-analysis request completes, every
\* submitted post with confidence > 0.3 is in the stored collection,
\* whatever its relevance score.
C19_EveryGatePassingPostStored ==
    SocialAnswered =>
        \A i \in 1..Len(socialArg[1]) :
            ClaimedConfidence(socialArg[1][i]) > 3 =>
                \E j \in 1..Len(socialPosts) : SamePost(socialPosts[j], socialArg[1][i])

\* what a request's posts add to the stored collection: nothing when the
\* request fails on a post without content, otherwise the posts with
\* confidence > 0.3 and relevance > 0.5, analysed
ClaimedStored(posts) ==
    IF \E i \in 1..Len(posts) : ~IsDefined(posts[i].content)
    THEN <<>>
    ELSE LET kept == SelectSeq(posts, LAMBDA post :
                         ClaimedConfidence(post) > 3 /\ ClaimedRelevance(post) > 5000)
         IN  [k \in 1..Len(kept) |->
                 [ platform |-> kept[k].platform, content |-> kept[k].content,
                   engagement |-> kept[k].engagement,
                   analysis |-> ClaimedAnalysis[ValueOf(kept[k].content)],
                   relevanceScore |-> ClaimedRelevance(kept[k]) ]]

\* C19, amended: a social-analysis request appends to the stored collection
\* exactly its posts with confidence > 0.3 and relevance score > 0.5, in
\* input order; posts that pass the confidence gate with a relevance of at
\* most 0.5 are returned in the response only, and a request that fails
\* stores nothing. Every stored post therefore has both properties.
C19_StoresGatePassingRelevantPosts ==
    /\ [][IsDefined(socialArg') =>
              socialPosts' = socialPosts \o ClaimedStored(socialArg'[1])]_vars
    /\ [](\A j \in 1..Len(socialPosts) :
              /\ socialPosts[j].analysis.confidence > 3
              /\ socialPosts[j].relevanceScore > 5000)

\* C19 witness: a request with two posts above the confidence gate, one with
\* relevance exactly 0.5 and one with 0.6, has completed; both were returned
\* and only the second one is stored
C19_ReturnedButNotStoredWitness ==
    /\ SocialAnswered
    /\ Len(socialArg[1]) = 2
    /\ socialRet.value.analyzed = 2
    /\ socialRet.value.relevant = 1
    /\ socialRet.value.posts[1].relevanceScore = 5000
    /\ Len(socialPosts) = 1
    /\ SamePost(socialPosts[1], socialArg[1][2])
    /\ socialPosts[1].relevanceScore = 6000


-----------------------------------------------------------------------------
\* Hotspots over reports with malformed fields (src/server.js)

\* null as a coordinate: its first element is the number JavaScript converts
\* it to in report.latitude * 10 and in sum + r.latitude, which is 0
JsNull == <<0, "null">>

\* the elements of req.body.offlineReports of a sync at clock t: two
\* well-formed reports of one grid cell and one of the cell around (0, 0);
\* a report of the first cell whose peopleAffected is not a number, one
\* without a latitude, and one whose coordinates are null
FieldReports(t) ==
    { WithTimestamp(Body(Some("all clear"), Some("critical"), "flood",
                         Num(1900), Num(7280), Some("7")), Num(t)),
      WithTimestamp(Body(Some("all clear"), Some("low"), "fire",
                         Num(1905), Num(7283), Some("2")), Num(t)),
      WithTimestamp(Body(Some("all clear"), Some("medium"), "storm",
                         Num(5), Num(5), Some("4")), Num(t)),
      WithTimestamp(Body(Some("all clear"), Some("high"), "flood",
                         Num(1900), Num(7280), Some("unknown")), Num(t)),
      WithTimestamp(Body(Some("all clear"), Some("high"), "storm",
                         Undefined, Num(7280), Some("5")), Num(t)),
      WithTimestamp(Body(Some("all clear"), Some("high"), "storm",
                         JsNull, JsNull, Some("5")), Num(t)) }

\* app.post('/api/sync') with reports from the field
PostSyncFieldReports ==
    /\ \E offlineReports \in SeqsUpTo(FieldReports(now), MaxSyncBatch) :
         /\ Len(reports) + Len(offlineReports) <= MaxReports
         /\ reports' = reports \o
                [i \in 1..Len(offlineReports) |->
                    syncedReport(offlineReports[i].body, offlineReports[i].timestamp, now)]
    /\ hotspots' = generateHotspots(reports', now)
    /\ hsNow' = now
    /\ rerun' = (reports' = reports)
    /\ UNCHANGED <<warnings, now, nlpVars, oceanVars, socialVars, offlineVars>>

FieldNext ==
    \/ PostSyncFieldReports
    \/ GetHotspots
    \/ TimerRefresh
    \/ Tick

SpecField == Init /\ [][FieldNext]_vars


\* Claims about malformed reports

IsPlainNumber(x) == Len(x) = 1
BadCoordinates(r) == ~(IsPlainNumber(r.latitude) /\ IsPlainNumber(r.longitude))
BadPeople(r) == ~IsNum(parseInt(r.peopleAffected))
Malformed(r) == BadCoordinates(r) \/ BadPeople(r)

MalformedIndexes == {i \in 1..Len(reports) : Malformed(reports[i])}
TheMalformed == CHOOSE i \in MalformedIndexes : TRUE

\* the collection without its report i
Without(i) == SubSeq(reports, 1, i - 1) \o SubSeq(reports, i + 1, Len(reports))

WellFormedCells == {clusterKey(reports[i]) : i \in (1..Len(reports)) \ MalformedIndexes}

OfCells(hs, cells) == SelectSeq(hs, LAMBDA h : h.id \in cells)

FreshIn(key) == {i \in 1..Len(reports) :
                    clusterKey(reports[i]) = key /\ inTimeWindow(reports[i], now)}

\* C20 as stated: with a single malformed report in the collection, the
\* hotspots of the cells of the well-formed reports are the ones a
\* recompute gives without the malformed report.
C20_MalformedReportAsIfAbsent ==
    (hsNow = now /\ Cardinality(MalformedIndexes) = 1) =>
        OfCells(hotspots, WellFormedCells)
            = OfCells(generateHotspots(Without(TheMalformed), now), WellFormedCells)

\* C20, amended: with a single malformed report m in the collection the
\* recompute yields a hotspot list, and
\*  - if a coordinate of m is absent (so that its cell key is NaN), the list
\*    is the one a recompute gives without m;
\*  - otherwise m is a member of the cell its coordinates select, a null
\*    coordinate counting as 0: the hotspot of that cell counts m in
\*    reportCount, has m's type among its types, and m adds to
\*    affectedPeople the number parseInt reads from its peopleAffected, 0
\*    when there is none; the hotspots of all other cells are the ones a
\*    recompute gives without m.
C20_MalformedReportCountsInItsCell ==
    (hsNow = now /\ Cardinality(MalformedIndexes) = 1) =>
        LET m == reports[TheMalformed]
            key == clusterKey(m)
            absent == generateHotspots(Without(TheMalformed), now)
        IN  IF ~(IsNum(key[1]) /\ IsNum(key[2]))
            THEN hotspots = absent
            ELSE /\ OfCells(hotspots, WellFormedCells \ {key})
                        = OfCells(absent, WellFormedCells \ {key})
                 /\ \A h \in 1..Len(hotspots) :
                       hotspots[h].id = key =>
                          /\ hotspots[h].reportCount = Cardinality(FreshIn(key))
                          /\ TheMalformed \in FreshIn(key) =>
                                /\ \E k \in 1..Len(hotspots[h].types) :
                                      hotspots[h].types[k] = m.type
                                /\ hotspots[h].affectedPeople
                                      = PeopleOf(FreshIn(key) \ {TheMalformed})
                                        + (IF BadPeople(m) THEN 0
                                           ELSE parseInt(m.peopleAffected)[1])
                 /\ (Cardinality(FreshIn(key)) >= 2) =>
                       \E h \in 1..Len(hotspots) : hotspots[h].id = key

\* C20 witness: the one malformed report, whose peopleAffected is not a
\* number, makes up a hotspot together with one well-formed report of its
\* cell, which alone has none
C20_MalformedMemberWitness ==
    /\ hsNow = now
    /\ Cardinality(MalformedIndexes) = 1
    /\ BadPeople(reports[TheMalformed])
    /\ Len(hotspots) = 1
    /\ hotspots[1].reportCount = 2
    /\ hotspots[1].affectedPeople = 7
    /\ generateHotspots(Without(TheMalformed), now) = <<>>


-----------------------------------------------------------------------------
\* Further claims about the risk assessment

Recognised(hz) == SelectSeq(hz, LAMBDA hazard : hazard.type \in FactorNames)

\* the list hz with hazard u put in before position k
InsertAt(hz, k, u) == SubSeq(hz, 1, k - 1) \o <<u>> \o SubSeq(hz, k, Len(hz))

SameAssessment(a, b) ==
    /\ a.overallRisk = b.overallRisk
    /\ a.riskLevel = b.riskLevel
    /\ a.factors = b.factors
    /\ a.recommendations = b.recommendations

\* C21: a hazard whose type is none of storm, waves, wind, visibility counts
\* for nothing: the answer is the one for the list without such hazards,
\* and putting one more of them anywhere into the list changes no factor
\* total, nor overallRisk, riskLevel or the recommendations; no error.
C21_UnrecognisedHazardsIgnored ==
    Answered =>
        /\ SameAssessment(Answer,
               assessRisk(Recognised(hazards), AskedLocation, riskArg[1].timeframe, now))
        /\ \A u \in {h \in HazardSamples : h.type \notin FactorNames} :
              \A k \in 1..(Len(hazards) + 1) :
                  SameAssessment(Answer,
                      assessRisk(InsertAt(hazards, k, u), AskedLocation,
                                 riskArg[1].timeframe, now))

\* C21 witness: a request at the waves site has been answered while a
\* tsunami hazard and a high waves hazard are active there
C21_TsunamiAtQueryLocationWitness ==
    /\ Answered
    /\ AskedLocation = WavesSite
    /\ Len(hazards) = 2
    /\ hazards[1].type = "tsunami"
    /\ hazards[1].location = WavesSite
    /\ hazards[2].type = "waves"
    /\ Answer.factors.waves = Num(700000)
    /\ Answer.factors.wind = Num(0)
    /\ Answer.overallRisk = Num(700000)


-----------------------------------------------------------------------------
\* Hotspot cells on both sides of the equator and the prime meridian

\* the elements of req.body.offlineReports of a sync at clock t: well-formed
\* reports at latitudes -0.10, -0.05 and 0.05 and longitudes -0.05 and 0.05
GridReports(t) ==
    { WithTimestamp(Body(Some("all clear"), Some("medium"), "flood",
                         Num(latitude), Num(longitude), Some("1")), Num(t)) :
        latitude \in {-10, -5, 5}, longitude \in {-5, 5} }

\* app.post('/api/sync') with reports from around (0, 0)
PostSyncGridReports ==
    /\ \E offlineReports \in SeqsUpTo(GridReports(now), MaxSyncBatch) :
         /\ Len(reports) + Len(offlineReports) <= MaxReports
         /\ reports' = reports \o
                [i \in 1..Len(offlineReports) |->
                    syncedReport(offlineReports[i].body, offlineReports[i].timestamp, now)]
    /\ hotspots' = generateHotspots(reports', now)
    /\ hsNow' = now
    /\ rerun' = (reports' = reports)
    /\ UNCHANGED <<warnings, now, nlpVars, oceanVars, socialVars, offlineVars>>

GridNext ==
    \/ PostSyncGridReports
    \/ GetHotspots
    \/ TimerRefresh
    \/ Tick

SpecGrid == Init /\ [][GridNext]_vars

\* Claims about the cells

InWindow == {i \in 1..Len(reports) : inTimeWindow(reports[i], now)}

TowardZero(x) == IF x >= 0 THEN x \div 10 ELSE -((-x) \div 10)
Downward(x) == x \div 10

\* the hotspot list groups the in-window reports by SameCell: a report with
\* at least one cell mate is counted, with its mates, by one hotspot of the
\* list, a report without a mate by none
GroupedBy(SameCell(_, _)) ==
    \A i \in InWindow :
        LET mates == {j \in InWindow : SameCell(reports[i], reports[j])}
            counting == {h \in 1..Len(hotspots) :
                            /\ hotspots[h].id = clusterKey(reports[i])
                            /\ hotspots[h].reportCount = Cardinality(mates)}
        IN  IF Cardinality(mates) >= 2
            THEN Cardinality(counting) = 1
            ELSE \A h \in 1..Len(hotspots) : hotspots[h].id # clusterKey(reports[i])

SameCellTowardZero(r, q) ==
    /\ TowardZero(r.latitude[1]) = TowardZero(q.latitude[1])
    /\ TowardZero(r.longitude[1]) = TowardZero(q.longitude[1])

SameCellDownward(r, q) ==
    /\ Downward(r.latitude[1]) = Downward(q.latitude[1])
    /\ Downward(r.longitude[1]) = Downward(q.longitude[1])

\* C23 as stated: two in-window reports share a hotspot cell iff latitude*10
\* and longitude*10, truncated toward zero, are equal for both; latitudes
\* -0.05 and 0.05 share a cell.
C23_CellsByTruncation ==
    hsNow = now => GroupedBy(SameCellTowardZero)

\* C23, amended: two in-window reports share a hotspot cell iff latitude*10
\* and longitude*10, rounded down (Math.floor), are equal for both, also for
\* negative coordinates: latitudes -0.10 and -0.05 share a cell, latitudes
\* -0.05 and 0.05 do not.
C23_CellsByFloor ==
    hsNow = now => GroupedBy(SameCellDownward)

\* C23 witness: reports at latitudes -0.10 and -0.05 make up a hotspot, and
\* a report at latitude 0.05 and the same longitude is in none
C23_AcrossTheEquatorWitness ==
    /\ hsNow = now
    /\ Len(reports) = 3
    /\ InWindow = {1, 2, 3}
    /\ reports[1].latitude = Num(-10)
    /\ reports[2].latitude = Num(-5)
    /\ reports[3].latitude = Num(5)
    /\ \A i \in 1..3 : reports[i].longitude = Num(5)
    /\ Len(hotspots) = 1
    /\ hotspots[1].reportCount = 2
    /\ hotspots[1].id = <<Num(-1), Num(0)>>


-----------------------------------------------------------------------------
\* Claims about the fields of a hotspot

\* the reports the latest run put into the cell of hotspot h
MembersOf(h) ==
    {i \in 1..Len(reports) :
        clusterKey(reports[i]) = hotspots[h].id /\ inTimeWindow(reports[i], hsNow)}

\* what a report's peopleAffected counts for: the integer it is or starts
\* with ("3 families" counts 3), 0 when it is missing or starts with none
CountedPeople(report) ==
    LET n == parseInt(report.peopleAffected)
    IN  IF IsNum(n) THEN n[1] ELSE 0

RECURSIVE SumCountedPeople(_)
SumCountedPeople(members) ==
    IF members = {} THEN 0
    ELSE LET i == CHOOSE m \in members : TRUE
         IN  CountedPeople(reports[i]) + SumCountedPeople(members \ {i})

-----------------------------------------------------------------------------
\* Claims about the sentiment

IsWordChar(c) == \E i \in 1..Len(LowerLetters) : CharAt(LowerLetters, i) = c

\* the number of places of s where word stands as a whole word: no letter
\* right before it and none right after it
WholeWordCount(s, word) ==
    Cardinality({i \in 1..(Len(s) - Len(word) + 1) :
                    /\ SubSeq(s, i, i + Len(word) - 1) = word
                    /\ (i = 1 \/ ~IsWordChar(CharAt(s, i - 1)))
                    /\ (i + Len(word) - 1 = Len(s) \/ ~IsWordChar(CharAt(s, i + Len(word))))})

RECURSIVE SumWholeWordCounts(_, _)
SumWholeWordCounts(words, s) ==
    IF words = <<>> THEN 0
    ELSE WholeWordCount(s, Head(words)) + SumWholeWordCounts(Tail(words), s)

\* C25: the sentiment is "negative" iff the whole-word occurrences of the
\* negative words outnumber those of the positive words, "positive" iff the
\* reverse, "neutral" when the counts are equal; a word that only appears
\* inside a longer word ("safe" in "unsafe") is not counted.
C25_SentimentFromWholeWords ==
    nlpRet.status = "returned" =>
        LET lowerText == toLowerCase(ValueOf(nlpArg))
            negative == SumWholeWordCounts(negativeWords, lowerText)
            positive == SumWholeWordCounts(positiveWords, lowerText)
        IN  nlpRet.value.sentiment =
                IF negative > positive THEN "negative"
                ELSE IF positive > negative THEN "positive"
                ELSE "neutral"


-----------------------------------------------------------------------------
(* The offline manager of the browser client: reports stored in the local   *)
(* database while offline and uploaded by sync passes.  The database calls   *)
(* are taken as the code expects them to answer: the lookup on the 'synced'  *)
(* index answers with the reports whose synced field is false, and every     *)
(* database call may also fail.                                               *)

\* a report as stored by storeReportOffline; ids (Date.now()) grow with time
OfflineReport(id) == [id |-> id, synced |-> FALSE]

RECURSIVE idsOf(_)
idsOf(stored) ==
    IF stored = <<>> THEN <<>>
    ELSE <<Head(stored).id>> \o idsOf(Tail(stored))

\* index.getAll(false) on the 'synced' index
unsyncedOf(stored) == idsOf(SelectSeq(stored, LAMBDA report : ~report.synced))

FreeSlots == {p \in PassSlots : syncPasses[p].pc = "idle"}

\* syncOfflineData up to its first await: nothing when offline or when the
\* queue is empty, else a pass that waits for getUnsyncedReports
syncOfflineData(online) ==
    IF ~online \/ syncQueue = <<>>
    THEN UNCHANGED syncPasses
    ELSE /\ FreeSlots # {}
         /\ LET p == CHOOSE q \in FreeSlots : \A r \in FreeSlots : q <= r
            IN  syncPasses' = [syncPasses EXCEPT ![p] =
                    [pc |-> "read", unsyncedReports |-> <<>>, next |-> 0]]

\* the end of the try block: the loop is over
passCompletes(p) ==
    /\ syncQueue' = <<>>
    /\ connectionStatus' = "synced"
    /\ syncPasses' = [syncPasses EXCEPT ![p] = IdlePass]

\* the catch block of syncOfflineData
passFails(p) ==
    /\ connectionStatus' = "sync-failed"
    /\ syncPasses' = [syncPasses EXCEPT ![p] = IdlePass]
    /\ UNCHANGED <<isOnline, syncQueue, dbReports, uploaded>>

\* window 'online' event
OnlineEvent ==
    /\ ~isOnline
    /\ isOnline' = TRUE
    /\ syncOfflineData(TRUE)
    /\ connectionStatus' = "online"
    /\ UNCHANGED <<syncQueue, dbReports, uploaded>>
    /\ UNCHANGED <<nlpVars, serverVars, oceanVars, socialVars>>

\* window 'offline' event
OfflineEvent ==
    /\ isOnline
    /\ isOnline' = FALSE
    /\ connectionStatus' = "offline"
    /\ UNCHANGED <<syncQueue, dbReports, syncPasses, uploaded>>
    /\ UNCHANGED <<nlpVars, serverVars, oceanVars, socialVars>>

\* the 30-second interval callback
SyncTimer ==
    /\ IF isOnline /\ syncQueue # <<>>
       THEN syncOfflineData(isOnline)
       ELSE UNCHANGED syncPasses
    /\ UNCHANGED <<isOnline, syncQueue, dbReports, uploaded, connectionStatus>>
    /\ UNCHANGED <<nlpVars, serverVars, oceanVars, socialVars>>

StoreReportOffline ==
    /\ Len(dbReports) < MaxOfflineReports
    /\ LET report == OfflineReport(Len(dbReports) + 1)
       IN  /\ dbReports' = Append(dbReports, report)
           /\ syncQueue' = Append(syncQueue, report.id)
    /\ UNCHANGED <<isOnline, syncPasses, uploaded, connectionStatus>>
    /\ UNCHANGED <<nlpVars, serverVars, oceanVars, socialVars>>

\* getUnsyncedReports resolves: the loop starts on the first report, or is
\* over at once when there is none
SyncReads(p) ==
    /\ syncPasses[p].pc = "read"
    /\ LET unsyncedReports == unsyncedOf(dbReports)
       IN  IF unsyncedReports = <<>>
           THEN /\ passCompletes(p)
                /\ UNCHANGED <<isOnline, dbReports, uploaded>>
           ELSE /\ syncPasses' = [syncPasses EXCEPT ![p] =
                        [pc |-> "fetch", unsyncedReports |-> unsyncedReports, next |-> 1]]
                /\ UNCHANGED <<isOnline, syncQueue, dbReports, uploaded, connectionStatus>>
    /\ UNCHANGED <<nlpVars, serverVars, oceanVars, socialVars>>

\* getUnsyncedReports rejects
SyncReadFails(p) ==
    /\ syncPasses[p].pc = "read"
    /\ passFails(p)
    /\ UNCHANGED <<nlpVars, serverVars, oceanVars, socialVars>>

\* syncSingleReport: the POST to /api/reports is answered with response.ok
UploadOk(p) ==
    /\ syncPasses[p].pc = "fetch"
    /\ LET id == syncPasses[p].unsyncedReports[syncPasses[p].next]
       IN  /\ uploaded[id] < MaxUploads
           /\ uploaded' = [uploaded EXCEPT ![id] = @ + 1]
    /\ syncPasses' = [syncPasses EXCEPT ![p].pc = "mark"]
    /\ UNCHANGED <<isOnline, syncQueue, dbReports, connectionStatus>>
    /\ UNCHANGED <<nlpVars, serverVars, oceanVars, socialVars>>

\* syncSingleReport: fetch rejects, or the response is not ok
UploadFails(p) ==
    /\ syncPasses[p].pc = "fetch"
    /\ passFails(p)
    /\ UNCHANGED <<nlpVars, serverVars, oceanVars, socialVars>>

markReportSynced(stored, reportId) ==
    [k \in 1..Len(stored) |->
        IF stored[k].id = reportId THEN [stored[k] EXCEPT !.synced = TRUE] ELSE stored[k]]

\* markReportSynced and markMediaSynced are done: the loop goes on to the next
\* report, or is over
MarkSynced(p) ==
    /\ syncPasses[p].pc = "mark"
    /\ LET pass == syncPasses[p]
       IN  /\ dbReports' = markReportSynced(dbReports, pass.unsyncedReports[pass.next])
           /\ IF pass.next < Len(pass.unsyncedReports)
              THEN /\ syncPasses' = [syncPasses EXCEPT ![p].pc = "fetch", ![p].next = @ + 1]
                   /\ UNCHANGED <<syncQueue, connectionStatus>>
              ELSE passCompletes(p)
    /\ UNCHANGED <<isOnline, uploaded>>
    /\ UNCHANGED <<nlpVars, serverVars, oceanVars, socialVars>>

\* markReportSynced or markMediaSynced rejects
MarkFails(p) ==
    /\ syncPasses[p].pc = "mark"
    /\ passFails(p)
    /\ UNCHANGED <<nlpVars, serverVars, oceanVars, socialVars>>

\* the setTimeout callback of updateUI('synced') and updateUI('sync-failed')
StatusReset ==
    /\ connectionStatus \in {"synced", "sync-failed"}
    /\ connectionStatus' = IF isOnline THEN "online" ELSE "offline"
    /\ UNCHANGED <<isOnline, syncQueue, dbReports, syncPasses, uploaded>>
    /\ UNCHANGED <<nlpVars, serverVars, oceanVars, socialVars>>

\* the page is loaded again: a new OfflineManager over the same database
PageReload ==
    /\ syncQueue' = <<>>
    /\ syncPasses' = [p \in PassSlots |-> IdlePass]
    /\ connectionStatus' = "none"
    /\ UNCHANGED <<isOnline, dbReports, uploaded>>
    /\ UNCHANGED <<nlpVars, serverVars, oceanVars, socialVars>>

OfflineSpecInit ==
    /\ isOnline \in BOOLEAN
    /\ syncQueue = <<>>
    /\ dbReports = <<>>
    /\ syncPasses = [p \in PassSlots |-> IdlePass]
    /\ uploaded = [id \in ReportIds |-> 0]
    /\ connectionStatus = "none"
    /\ nlpArg = Undefined
    /\ nlpRet = NotCalled
    /\ ServerInit
    /\ OceanInit
    /\ SocialInit

OfflineNext ==
    \/ OnlineEvent
    \/ OfflineEvent
    \/ SyncTimer
    \/ StoreReportOffline
    \/ \E p \in PassSlots : SyncReads(p)
    \/ \E p \in PassSlots : SyncReadFails(p)
    \/ \E p \in PassSlots : UploadOk(p)
    \/ \E p \in PassSlots : UploadFails(p)
    \/ \E p \in PassSlots : MarkSynced(p)
    \/ \E p \in PassSlots : MarkFails(p)
    \/ StatusReset
    \/ PageReload

SpecOffline == OfflineSpecInit /\ [][OfflineNext]_vars

\* The same with the scheduling the browser gives: the interval callback runs
\* again and again, and a pending database call or upload is answered; while
\* the network and the database are available they are not refused for ever.
SpecOfflineFair ==
    /\ SpecOffline
    /\ WF_vars(SyncTimer)
    /\ \A p \in PassSlots :
          /\ SF_vars(SyncReads(p))
          /\ SF_vars(UploadOk(p))
          /\ SF_vars(MarkSynced(p))


-----------------------------------------------------------------------------
\* Claims about the offline manager

Stored(id) == \E k \in 1..Len(dbReports) : dbReports[k].id = id
UnsyncedIn(stored, id) == \E k \in 1..Len(stored) : stored[k].id = id /\ ~stored[k].synced
InQueue(queue, id) == \E k \in 1..Len(queue) : queue[k] = id

\* C26: over any sequence of online/offline events, timer ticks, sync passes
\* (overlapping ones and ones that fail part-way included) and stores, each
\* report stored offline is uploaded to the server at most once.
C26_EachReportUploadedAtMostOnce ==
    \A id \in ReportIds : uploaded[id] <= 1

\* pass p ends in this step, by the end of its loop or by its catch block
PassEnds(p) ==
    /\ syncPasses[p].pc # "idle"
    /\ syncPasses'[p].pc = "idle"
    /\ connectionStatus' \in {"synced", "sync-failed"}

\* C27: a report stored while a sync pass is in flight is not lost from the
\* sync queue: when the pass ends, every queued report that is still unsynced
\* in the local database is still in the queue.
C27_QueuedUnsyncedReportStaysQueued ==
    [][\A p \in PassSlots :
          PassEnds(p) =>
              \A id \in ReportIds :
                  (InQueue(syncQueue, id) /\ UnsyncedIn(dbReports', id)) => InQueue(syncQueue', id)]_vars

\* the reports the pass in slot p has not finished: the one it is at and all
\* after it in its list
Unfinished(p) ==
    {syncPasses[p].unsyncedReports[k] :
        k \in syncPasses[p].next..Len(syncPasses[p].unsyncedReports)}

\* C28: when the upload of a report fails during a sync pass, the pass stops,
\* the sync queue is left as it was, the status becomes sync-failed, and the
\* failed report and all reports after it are unsynced in the local database.
C28_FailedUploadKeepsQueueAndReports ==
    [][\A p \in PassSlots :
          (UploadFails(p) \/ MarkFails(p)) =>
              /\ syncPasses'[p] = IdlePass
              /\ uploaded' = uploaded
              /\ syncQueue' = syncQueue
              /\ connectionStatus' = "sync-failed"
              /\ \A id \in Unfinished(p) : UnsyncedIn(dbReports', id)]_vars

\* the same, of what the failing pass does to the reports: it marks none
C28_FailedUploadMarksNothing ==
    [][\A p \in PassSlots :
          (UploadFails(p) \/ MarkFails(p)) =>
              /\ syncPasses'[p] = IdlePass
              /\ uploaded' = uploaded
              /\ syncQueue' = syncQueue
              /\ connectionStatus' = "sync-failed"
              /\ dbReports' = dbReports]_vars


\* C22: once connectivity is restored and stays, every report stored offline
\* is eventually uploaded to the server, the reports stored before a page
\* reload included.
C22_StoredReportsEventuallyUploaded ==
    (<>[]isOnline) =>
        \A id \in ReportIds : [](Stored(id) => <>(uploaded[id] > 0))


-----------------------------------------------------------------------------
\* Claims about the hazard list and the monitoring timers

\* C29: in every reachable state of the ocean monitor the hazard list holds at
\* most three hazards, of pairwise distinct types, each of them storm, waves
\* or visibility; no wind hazard is produced, and the wind factor of every
\* risk answer is 0.
C29_HazardListShapeAndNoWind ==
    /\ Len(hazards) <= 3
    /\ \A i, j \in 1..Len(hazards) : hazards[i].type = hazards[j].type => i = j
    /\ \A i \in 1..Len(hazards) : hazards[i].type \in {"storm", "waves", "visibility"}
    /\ Answered => Answer.factors.wind = Num(0)

\* C29 witness: a storm and a wave hazard are active and a query at the wave
\* site was answered with a wave factor and no wind factor.
C29_StormAndWavesAnsweredWitness ==
    /\ TypesOf(hazards) = <<"storm", "waves">>
    /\ Answered
    /\ AskedLocation = WavesSite
    /\ Answer.factors.waves # Num(0)
    /\ Answer.factors.wind = Num(0)

\* C30: at most one periodic weather-refresh timer is active at any time,
\* however many times initialize was invoked (server start and every status
\* request).
C30_AtMostOneMonitoringTimer ==
    timers <= 1

=============================================================================
